---- MODULE Spec2Model ----
(***************************************************************************)
(* A model of the chronograph tracing library: the span factory with its   *)
(* atomic id counter and sampling policy, the span lifecycle (record,      *)
(* move, clone, drop with the processor chain and the recorder), and the   *)
(* batching recorder with its background collector thread.                 *)
(***************************************************************************)
EXTENDS Integers, Sequences, FiniteSets, TLC

\* ------------------------------------------------------------------ bounds
NThreads == 2
MaxAlloc == 4
NSlots == 2
MaxSpans == 2
MaxCalls == 2
MaxClones == 1
MaxRate == 2
NProcs == 2
MaxSampleRate == 9
MaxSampleId == 12
NProducers == 2
MaxPush == 2
MaxThreshold == 3
TimeThreshold == 2
MaxQueue == 1
MaxInit == 2
NLocalThreads == 1
NHolders == 1
MaxRelocated == 1

Threads == 1..NThreads
Slots == 1..NSlots
Producers == 1..NProducers
\* The id of the thread CollectThread::spawn starts; producers are 1..NProducers.
Collector == 0

\* The inputs of the record_* calls: a datapoint id, and for record_value a value.
InstantIds == {1}
UnixTimeIds == {2}
ValueIds == {3}
UserValues == {"I32"}

None == [none |-> TRUE]

VARIABLES
    sample_rate,   \* ChronographContext.sample_rate, as given to with_sample_rate
    next_id,       \* Chronograph.next_id
    pc,            \* per thread: "idle", or "fetched" inside start_span
    local_id,      \* per thread: the span_id start_span has fetched
    alloc,         \* history: the ids in the order the fetch_adds took effect
    returned,      \* history: the ids of the spans start_span returned, in return order
    decided,       \* history: the pairs <<id, sampling decision>> of the spans created
    slots,         \* the owners a Span can be held by: None or a Span
    last,          \* history: the latest Drop: the span dropped and what it invoked
    rec_count,     \* history: per id, the number of recorder invocations
    proc_count,    \* history: per id, the number of processor invocations
    clones,        \* history: number of Clone calls made
    ncalls,        \* history: number of record_* calls made
    batch_size_threshold, \* BatchCollectionOptions.batch_size_threshold
    queue,         \* BatchingSpanRecorder.batch: the shared queue; item j is the j-th push
    chan,          \* the mpsc channel of ThreadActions, thread_tx to thread_rx
    ppc,           \* per producer: "idle", or "pushed" inside record_span
    cpc,           \* the collector thread: "recv", "check", "pop", "collect"; "done" or "dead" once ended
    buf,           \* the collector's local Vec batch
    wait_left,     \* time left until the pending recv_timeout times out
    collect_left,  \* time left until next_collect_time
    npushed,       \* history: number of pushes made
    pushers,       \* history: the producers that have pushed
    delivered,     \* history: the batches passed to the collector callback, and by whom
    active,        \* history: the threads now inside the collector callback
    interleaved,   \* history: some push found an earlier item already taken off the queue
    checked,       \* history: a check at or past the deadline has run since the last push
    released,      \* the BatchingSpanRecorder has been dropped
    GLOBAL_CHRONOGRAPH, \* the OnceLock init sets: None or the Chronograph installed
    NOOP_CHRONOGRAPH,   \* the OnceLock of the fallback: None or the no-op Chronograph
    gpc,           \* per thread: "idle", "fallback" inside global(), or "panicked"
    gcall,         \* per thread: what the running global() call found when it started
    gret,          \* history, per thread: the latest return of global()
    inits,         \* history: the init calls made, in order, and their outcome
    noops,         \* history: number of no-op Chronographs built
    CURRENT_SPAN,  \* per thread: the thread-local slot, None or a Span
    arg,           \* per thread: the Span passed to the running set_threadlocal_span
    lpc,           \* per thread: "idle", or "set" / "store" inside set_threadlocal_span
    got,           \* per thread: the id of the span the latest get returned a reference to, if any
    finalized_by,  \* history, per id: the slot operation that finalized it, "" if none did
    handle         \* the Chronograph value the builder returned has not been dropped

idVars == <<sample_rate, next_id, pc, local_id, alloc, returned, decided>>
spanVars == <<slots, last, rec_count, proc_count, clones, ncalls>>

batchVars == <<batch_size_threshold, queue, chan, ppc, cpc, buf, wait_left, collect_left,
               npushed, pushers, delivered, active, interleaved, checked, released>>

globalVars == <<GLOBAL_CHRONOGRAPH, NOOP_CHRONOGRAPH, gpc, gcall, gret, inits, noops>>

localVars == <<CURRENT_SPAN, arg, lpc, got, finalized_by>>

arcVars == <<handle>>

regVars == <<globalVars, localVars, arcVars>>

vars == <<idVars, spanVars, batchVars, regVars>>

\* ------------------------------------------------------- sampling policy
RECURSIVE BitAnd(_, _)
BitAnd(a, b) ==
    IF a = 0 \/ b = 0 THEN 0
    ELSE (a % 2) * (b % 2) + 2 * BitAnd(a \div 2, b \div 2)

RECURSIVE count_ones(_)
count_ones(x) == IF x = 0 THEN 0 ELSE (x % 2) + count_ones(x \div 2)

is_power_of_two(x) == count_ones(x) = 1

SampleRate_from(value) ==
    IF value = 0 THEN [kind |-> "All", x |-> 0]
    ELSE IF is_power_of_two(value) THEN [kind |-> "Pow2", x |-> value]
    ELSE [kind |-> "Modulo", x |-> value]

sample_masked(self, span_id) ==
    CASE self.kind = "All" -> TRUE
      [] self.kind = "Pow2" -> BitAnd(span_id, self.x) = 0
      [] self.kind = "Modulo" -> span_id % self.x = 0

sample(self, span_id) ==
    CASE self.kind = "All" -> TRUE
      [] self.kind = "Pow2" -> BitAnd(span_id, self.x - 1) = 0
      [] self.kind = "Modulo" -> span_id % self.x = 0

\* ------------------------------------------------------------ the builder
with_processor_front(procs, post_processor) == <<post_processor>> \o procs

with_processor(procs, post_processor) == Append(procs, post_processor)

\* The processors of the context after NProcs with_processor calls; the k-th
\* call registers processor k.
RECURSIVE Registered(_)
Registered(n) == IF n = 0 THEN <<>> ELSE with_processor(Registered(n - 1), n)

processors == Registered(NProcs)

\* ---------------------------------------------------------------- spans
record_value_no_sampling_front(span, datapoint_id, value) ==
    [span EXCEPT !.records = <<[datapoint_id |-> datapoint_id, value |-> value]>> \o @]

record_value_no_sampling(span, datapoint_id, value) ==
    [span EXCEPT !.records = Append(@, [datapoint_id |-> datapoint_id, value |-> value])]

record_value_unguarded(span, datapoint_id, value) ==
    record_value_no_sampling(span, datapoint_id, value)

record_value(span, datapoint_id, value) ==
    IF span.sampled THEN record_value_no_sampling(span, datapoint_id, value) ELSE span

record_instant(span, datapoint_id) ==
    IF span.sampled THEN record_value(span, datapoint_id, "Instant") ELSE span

record_unix_time(span, datapoint_id) ==
    IF span.sampled THEN record_value_no_sampling(span, datapoint_id, "UnixTime") ELSE span

\* The history of calls travels with the span value (a clone copies it).
Called(span, call) == [span EXCEPT !.calls = Append(@, call)]

SpanDataOf(span) == [span_id |-> span.span_id, records |-> span.records]

\* What Drop invokes, in order: nothing for an unsampled span; otherwise every
\* processor of the context, then the recorder.
drop_recorder_first(span) ==
    IF ~span.sampled THEN <<>>
    ELSE <<[hook |-> "recorder", proc |-> 0, data |-> SpanDataOf(span)]>>
         \o [k \in 1..Len(processors) |->
                [hook |-> "processor", proc |-> processors[k], data |-> SpanDataOf(span)]]

drop_without_recorder(span) ==
    IF ~span.sampled THEN <<>>
    ELSE [k \in 1..Len(processors) |->
             [hook |-> "processor", proc |-> processors[k], data |-> SpanDataOf(span)]]

drop(span) ==
    IF ~span.sampled THEN <<>>
    ELSE [k \in 1..Len(processors) |->
             [hook |-> "processor", proc |-> processors[k], data |-> SpanDataOf(span)]]
         \o <<[hook |-> "recorder", proc |-> 0, data |-> SpanDataOf(span)]>>

\* The for loop over the processors when the call of processor `failing` panics:
\* the calls made, up to and including that one, then the unwinding out of the loop.
RECURSIVE post_process_until(_, _, _)
post_process_until(procs, span_data, failing) ==
    IF procs = <<>> THEN <<>>
    ELSE IF Head(procs) = failing
         THEN <<[hook |-> "processor", proc |-> Head(procs), data |-> span_data],
                [hook |-> "unwind", proc |-> Head(procs), data |-> span_data]>>
         ELSE <<[hook |-> "processor", proc |-> Head(procs), data |-> span_data]>>
              \o post_process_until(Tail(procs), span_data, failing)

\* Drop with the panic caught around each processor call: the loop goes on.
drop_unwinding_caught(span, failing) ==
    IF ~span.sampled THEN <<>>
    ELSE post_process_until(processors, SpanDataOf(span), failing)
         \o [k \in 1..(Len(processors) - failing) |->
                [hook |-> "processor", proc |-> processors[failing + k],
                 data |-> SpanDataOf(span)]]
         \o <<[hook |-> "recorder", proc |-> 0, data |-> SpanDataOf(span)]>>

\* What Drop invokes when processor `failing` panics in its call: nothing catches
\* the panic, so it leaves drop; the recorder is reached only if no call panicked.
drop_unwinding(span, failing) ==
    IF ~span.sampled THEN <<>>
    ELSE LET called == post_process_until(processors, SpanDataOf(span), failing) IN
         IF called # <<>> /\ called[Len(called)].hook = "unwind"
         THEN called
         ELSE called \o <<[hook |-> "recorder", proc |-> 0, data |-> SpanDataOf(span)]>>

\* ------------------------------------------------------------- actions
fetch_add_lost(cur) == cur

fetch_add(cur) == cur + 1

NewSpan(span_id) ==
    [span_id |-> span_id,
     sampled |-> sample(SampleRate_from(sample_rate), span_id),
     records |-> <<>>,
     calls |-> <<>>]

\* start_span, first step: the atomic increment of next_id.
StartSpanFetch(t) ==
    /\ pc[t] = "idle"
    /\ next_id < MaxAlloc
    /\ local_id' = [local_id EXCEPT ![t] = next_id]
    /\ next_id' = fetch_add(next_id)
    /\ alloc' = Append(alloc, next_id)
    /\ pc' = [pc EXCEPT ![t] = "fetched"]
    /\ UNCHANGED <<sample_rate, returned, decided, spanVars, batchVars, regVars>>

\* start_span, second step: the Span is built and returned.
StartSpanBuild(t) ==
    /\ pc[t] = "fetched"
    /\ returned' = Append(returned, NewSpan(local_id[t]).span_id)
    /\ decided' = decided \cup {<<local_id[t], NewSpan(local_id[t]).sampled>>}
    /\ pc' = [pc EXCEPT ![t] = "idle"]
    /\ UNCHANGED <<sample_rate, next_id, local_id, alloc, spanVars, batchVars, regVars>>

\* start_span as one step, the Span handed to owner s.
StartSpan(s) ==
    /\ slots[s] = None
    /\ next_id < MaxSpans
    /\ next_id' = fetch_add(next_id)
    /\ slots' = [slots EXCEPT ![s] = NewSpan(next_id)]
    /\ decided' = decided \cup {<<next_id, NewSpan(next_id).sampled>>}
    /\ UNCHANGED <<sample_rate, pc, local_id, alloc, returned, last, rec_count, proc_count, clones, ncalls, batchVars, regVars>>

CanRecord(s) == slots[s] # None /\ ncalls < MaxCalls

RecordInstant(s, d) ==
    /\ CanRecord(s)
    /\ slots' = [slots EXCEPT ![s] = Called(record_instant(@, d), [datapoint_id |-> d, value |-> "Instant"])]
    /\ ncalls' = ncalls + 1
    /\ UNCHANGED <<idVars, last, rec_count, proc_count, clones, batchVars, regVars>>

RecordUnixTime(s, d) ==
    /\ CanRecord(s)
    /\ slots' = [slots EXCEPT ![s] = Called(record_unix_time(@, d), [datapoint_id |-> d, value |-> "UnixTime"])]
    /\ ncalls' = ncalls + 1
    /\ UNCHANGED <<idVars, last, rec_count, proc_count, clones, batchVars, regVars>>

RecordValue(s, d, v) ==
    /\ CanRecord(s)
    /\ slots' = [slots EXCEPT ![s] = Called(record_value(@, d, v), [datapoint_id |-> d, value |-> v])]
    /\ ncalls' = ncalls + 1
    /\ UNCHANGED <<idVars, last, rec_count, proc_count, clones, batchVars, regVars>>

\* A Span is moved from one owner to another (no code runs).
Move(a, b) ==
    /\ slots[a] # None
    /\ slots[b] = None
    /\ slots' = [slots EXCEPT ![a] = None, ![b] = slots[a]]
    /\ UNCHANGED <<idVars, last, rec_count, proc_count, clones, ncalls, batchVars, regVars>>

\* Span derives Clone: every field is copied, the id and the records included.
Clone(a, b) ==
    /\ slots[a] # None
    /\ slots[b] = None
    /\ clones < MaxClones
    /\ slots' = [slots EXCEPT ![b] = slots[a]]
    /\ clones' = clones + 1
    /\ UNCHANGED <<idVars, last, rec_count, proc_count, ncalls, batchVars, regVars>>

Count(invoked, hook) == Cardinality({i \in 1..Len(invoked) : invoked[i].hook = hook})

\* The owner releases the Span: Drop runs, whole.
\* A Span value goes out of scope: Drop runs, whole.
drop_in_place(span) ==
    LET invoked == drop(span) IN
        /\ last' = [span |-> span, invoked |-> invoked]
        /\ rec_count' = [rec_count EXCEPT ![span.span_id] = @ + Count(invoked, "recorder")]
        /\ proc_count' = [proc_count EXCEPT ![span.span_id] = @ + Count(invoked, "processor")]

Drop(s) ==
    /\ slots[s] # None
    /\ drop_in_place(slots[s])
    /\ slots' = [slots EXCEPT ![s] = None]
    /\ UNCHANGED <<idVars, clones, ncalls, batchVars, regVars>>

\* A Span value goes out of scope and the call of processor `failing` panics.
DropUnwinding(s, failing) ==
    /\ slots[s] # None
    /\ LET invoked == drop_unwinding(slots[s], failing) IN
           /\ last' = [span |-> slots[s], invoked |-> invoked]
           /\ rec_count' = [rec_count EXCEPT ![slots[s].span_id] = @ + Count(invoked, "recorder")]
           /\ proc_count' = [proc_count EXCEPT ![slots[s].span_id] = @ + Count(invoked, "processor")]
    /\ slots' = [slots EXCEPT ![s] = None]
    /\ UNCHANGED <<idVars, clones, ncalls, batchVars, regVars>>

\* ------------------------------------------------ the batching recorder
\* record_span, first step: the push onto the shared queue.
RecordSpanPush(p) ==
    /\ ppc[p] = "idle"
    /\ ~released
    /\ npushed < MaxPush
    /\ queue' = Append(queue, npushed + 1)
    /\ npushed' = npushed + 1
    /\ pushers' = pushers \cup {p}
    /\ interleaved' = (interleaved \/ Len(queue) < npushed)
    /\ checked' = FALSE
    /\ ppc' = [ppc EXCEPT ![p] = "pushed"]
    /\ UNCHANGED <<idVars, spanVars, regVars, released, batch_size_threshold, chan, cpc, buf, wait_left,
                   collect_left, delivered, active>>

\* Pushes beyond the MaxPush the history follows: the item is 0, untracked. They are
\* made while a tracked item is still on its way, and the queue is kept short.
Tracked(r) == r > 0

Pending == \E i \in 1..Len(queue) : Tracked(queue[i])

PendingInBatch == \E i \in 1..Len(buf) : Tracked(buf[i])

RecordSpanPushMore(p) ==
    /\ ppc[p] = "idle"
    /\ ~released
    /\ Pending \/ PendingInBatch
    /\ Len(queue) < MaxQueue
    /\ chan = <<>>
    /\ queue' = Append(queue, 0)
    /\ ppc' = [ppc EXCEPT ![p] = "pushed"]
    /\ UNCHANGED <<idVars, spanVars, regVars, released, batch_size_threshold, chan, cpc, buf, wait_left,
                   collect_left, npushed, pushers, delivered, active, interleaved, checked>>

\* The receiver is dropped when run returns or unwinds: the channel is closed.
Disconnected == cpc \in {"done", "dead"}

\* thread_tx.send(action).ok() with the failure of the send overlooked.
send_ok_queued_anyway(ch, action) == Append(ch, action)

\* thread_tx.send(action).ok(): the action is queued, the channel being unbounded,
\* unless the channel is closed; then send returns Err, which ok() discards.
send_ok(ch, action) == IF Disconnected THEN ch ELSE Append(ch, action)

\* Whether record_span sends the wake signal, given the length it reads.
reached_threshold_above(len, threshold) == len > threshold

reached_threshold(len, threshold) == len = threshold

\* record_span, second step: the length is read, and the wake signal sent if it
\* equals the threshold. The channel is unbounded: the send never blocks.
RecordSpanSignal_inline(p) ==
    /\ ppc[p] = "pushed"
    /\ IF reached_threshold(Len(queue), batch_size_threshold)
       THEN /\ delivered' = Append(delivered, [by |-> p, batch |-> queue])
            /\ queue' = <<>>
       ELSE UNCHANGED <<delivered, queue>>
    /\ ppc' = [ppc EXCEPT ![p] = "idle"]
    /\ UNCHANGED <<idVars, spanVars, regVars, released, batch_size_threshold, chan, cpc, buf, wait_left,
                   collect_left, npushed, pushers, active, interleaved, checked>>

RecordSpanSignal(p) ==
    /\ ppc[p] = "pushed"
    /\ chan' = IF reached_threshold(Len(queue), batch_size_threshold)
               THEN send_ok(chan, "Wake") ELSE chan
    /\ ppc' = [ppc EXCEPT ![p] = "idle"]
    /\ UNCHANGED <<idVars, spanVars, regVars, released, batch_size_threshold, queue, cpc, buf, wait_left,
                   collect_left, npushed, pushers, delivered, active, interleaved, checked>>

\* recv_timeout returns Ok(Wake).
RecvWake ==
    /\ cpc = "recv"
    /\ chan # <<>>
    /\ Head(chan) = "Wake"
    /\ chan' = Tail(chan)
    /\ cpc' = "check"
    /\ wait_left' = 0
    /\ UNCHANGED <<idVars, spanVars, regVars, released, batch_size_threshold, queue, ppc, buf, collect_left,
                   npushed, pushers, delivered, active, interleaved, checked>>

\* recv_timeout returns Err: nothing arrived within batch_time_threshold.
RecvTimeout ==
    /\ cpc = "recv"
    /\ chan = <<>>
    /\ wait_left = 0
    /\ cpc' = "check"
    /\ UNCHANGED <<idVars, spanVars, regVars, released, batch_size_threshold, queue, chan, ppc, buf, wait_left,
                   collect_left, npushed, pushers, delivered, active, interleaved, checked>>

\* The test that decides a drain: the queue length read, the clock read.
should_collect_size_only(len, threshold, left) == len >= threshold

should_collect(len, threshold, left) == len >= threshold \/ left = 0

\* The collector goes back to recv_timeout(batch_time_threshold).
BackToRecv ==
    /\ cpc' = "recv"
    /\ wait_left' = TimeThreshold

Check ==
    /\ cpc = "check"
    /\ IF should_collect(Len(queue), batch_size_threshold, collect_left)
       THEN /\ cpc' = "pop"
            /\ UNCHANGED wait_left
       ELSE BackToRecv
    /\ checked' = (checked \/ collect_left = 0)
    /\ UNCHANGED <<idVars, spanVars, regVars, released, batch_size_threshold, queue, chan, ppc, buf,
                   collect_left, npushed, pushers, delivered, active, interleaved>>

\* batch.push(record). Untracked items are interchangeable: a run of them is
\* kept as one.
batch_push(batch, record) ==
    IF Tracked(record) \/ batch = <<>> \/ Tracked(batch[Len(batch)])
    THEN Append(batch, record)
    ELSE batch

\* One turn of the drain loop with the record read but left in the queue.
Pop_without_removal ==
    /\ cpc = "pop"
    /\ queue # <<>>
    /\ buf' = batch_push(buf, Head(queue))
    /\ UNCHANGED <<idVars, spanVars, regVars, released, batch_size_threshold, queue, chan, ppc, cpc, wait_left,
                   collect_left, npushed, pushers, delivered, active, interleaved, checked>>

\* One turn of the drain loop: pop returns Some(record).
Pop ==
    /\ cpc = "pop"
    /\ queue # <<>>
    /\ buf' = batch_push(buf, Head(queue))
    /\ queue' = Tail(queue)
    /\ UNCHANGED <<idVars, spanVars, regVars, released, batch_size_threshold, chan, ppc, cpc, wait_left,
                   collect_left, npushed, pushers, delivered, active, interleaved, checked>>

\* pop returns None: the callback is invoked, whatever the batch holds.
Collect_even_if_empty ==
    /\ cpc = "pop"
    /\ queue = <<>>
    /\ delivered' = Append(delivered, [by |-> Collector, batch |-> buf])
    /\ active' = active \cup {Collector}
    /\ buf' = <<>>
    /\ cpc' = "collect"
    /\ UNCHANGED <<idVars, spanVars, regVars, released, batch_size_threshold, queue, chan, ppc, wait_left,
                   collect_left, npushed, pushers, interleaved, checked>>

\* pop returns None and the batch is not empty: the callback is invoked.
Collect ==
    /\ cpc = "pop"
    /\ queue = <<>>
    /\ buf # <<>>
    /\ delivered' = Append(delivered, [by |-> Collector, batch |-> buf])
    /\ active' = active \cup {Collector}
    /\ buf' = <<>>
    /\ cpc' = "collect"
    /\ UNCHANGED <<idVars, spanVars, regVars, released, batch_size_threshold, queue, chan, ppc, wait_left,
                   collect_left, npushed, pushers, interleaved, checked>>

\* The callback returns; next_collect_time = now + batch_time_threshold.
CollectReturn ==
    /\ cpc = "collect"
    /\ active' = active \ {Collector}
    /\ collect_left' = TimeThreshold
    /\ BackToRecv
    /\ UNCHANGED <<idVars, spanVars, regVars, released, batch_size_threshold, queue, chan, ppc, buf,
                   npushed, pushers, delivered, interleaved, checked>>

\* The callback panics: run unwinds, the thread ends and its receiver is dropped.
\* The signals left in the channel are never read.
CollectPanics ==
    /\ cpc = "collect"
    /\ active' = active \ {Collector}
    /\ cpc' = "dead"
    /\ UNCHANGED <<idVars, spanVars, regVars, released, batch_size_threshold, queue, chan, ppc, buf,
                   wait_left, collect_left, npushed, pushers, delivered, interleaved, checked>>

\* pop returns None and the batch is empty: no callback, and no reset either.
DrainedNothing_no_reset ==
    /\ cpc = "pop"
    /\ queue = <<>>
    /\ buf = <<>>
    /\ BackToRecv
    /\ UNCHANGED <<idVars, spanVars, regVars, released, batch_size_threshold, queue, chan, ppc, buf,
                   collect_left, npushed, pushers, delivered, active, interleaved, checked>>

\* pop returns None and the batch is empty: no callback; the deadline is reset.
DrainedNothing ==
    /\ cpc = "pop"
    /\ queue = <<>>
    /\ buf = <<>>
    /\ collect_left' = TimeThreshold
    /\ BackToRecv
    /\ UNCHANGED <<idVars, spanVars, regVars, released, batch_size_threshold, queue, chan, ppc, buf,
                   npushed, pushers, delivered, active, interleaved, checked>>

\* Time passes.
Tick ==
    /\ (cpc = "recv" /\ wait_left > 0) \/ collect_left > 0
    /\ wait_left' = IF cpc = "recv" /\ wait_left > 0 THEN wait_left - 1 ELSE wait_left
    /\ collect_left' = IF collect_left > 0 THEN collect_left - 1 ELSE 0
    /\ UNCHANGED <<idVars, spanVars, regVars, released, batch_size_threshold, queue, chan, ppc, cpc, buf,
                   npushed, pushers, delivered, active, interleaved, checked>>

CollectorNext == RecvWake \/ RecvTimeout \/ Check \/ Pop \/ Collect \/ CollectReturn \/ DrainedNothing

\* Drop for BatchingSpanRecorder: the recorder is owned by the context every Span
\* and the Chronograph share, so it is dropped once no record_span call can run
\* any more. The Shutdown signal is sent; the send cannot block.
ReleaseRecorder ==
    /\ ~released
    /\ \A p \in Producers : ppc[p] = "idle"
    /\ released' = TRUE
    /\ chan' = send_ok(chan, "Shutdown")
    /\ UNCHANGED <<idVars, spanVars, regVars, batch_size_threshold, queue, ppc, cpc, buf,
                   wait_left, collect_left, npushed, pushers, delivered, active,
                   interleaved, checked>>

\* The Arc<ChronographContext> values alive: the one in the Chronograph, one in
\* every Span held, and one in every Span a thread is in the middle of dropping.
strong_count ==
    (IF handle THEN 1 ELSE 0)
    + Cardinality({s \in Slots : slots[s] # None})
    + Cardinality({p \in Producers : ppc[p] # "idle"})

\* An Arc<ChronographContext> is dropped, `left` others remaining: the last one
\* drops the context with the recorder in it, and Drop for BatchingSpanRecorder
\* sends Shutdown.
arc_drop(left) ==
    IF left = 0
    THEN /\ released' = TRUE
         /\ chan' = send_ok(chan, "Shutdown")
    ELSE UNCHANGED <<released, chan>>

\* start_span on the Chronograph: its context is cloned into the Span.
StartSpanShared(s) ==
    /\ handle
    /\ StartSpan(s)

\* Thread p drops the Span held by s: Drop for Span runs up to the push of
\* record_span; an unsampled span returns at once. The fields are dropped after.
FinalizePush(p, s) ==
    /\ ppc[p] = "idle"
    /\ slots[s] # None
    /\ slots[s].sampled => npushed < MaxPush
    /\ slots' = [slots EXCEPT ![s] = None]
    /\ IF slots[s].sampled
       THEN /\ queue' = Append(queue, npushed + 1)
            /\ npushed' = npushed + 1
            /\ pushers' = pushers \cup {p}
            /\ interleaved' = (interleaved \/ Len(queue) < npushed)
            /\ checked' = FALSE
            /\ ppc' = [ppc EXCEPT ![p] = "pushed"]
       ELSE /\ ppc' = [ppc EXCEPT ![p] = "fields"]
            /\ UNCHANGED <<queue, npushed, pushers, interleaved, checked>>
    /\ UNCHANGED <<idVars, last, rec_count, proc_count, clones, ncalls, regVars, released,
                   batch_size_threshold, chan, cpc, buf, wait_left, collect_left,
                   delivered, active>>

\* The rest of record_span, inside Drop for Span: the wake signal at the threshold.
FinalizeSignal(p) ==
    /\ ppc[p] = "pushed"
    /\ chan' = IF reached_threshold(Len(queue), batch_size_threshold)
               THEN send_ok(chan, "Wake") ELSE chan
    /\ ppc' = [ppc EXCEPT ![p] = "fields"]
    /\ UNCHANGED <<idVars, spanVars, regVars, released, batch_size_threshold, queue, cpc, buf,
                   wait_left, collect_left, npushed, pushers, delivered, active,
                   interleaved, checked>>

\* Drop for Span has returned: the fields of the Span are dropped, its context last.
FinalizeFields(p) ==
    /\ ppc[p] = "fields"
    /\ ppc' = [ppc EXCEPT ![p] = "idle"]
    /\ arc_drop(strong_count - 1)
    /\ UNCHANGED <<idVars, spanVars, regVars, batch_size_threshold, queue, cpc, buf,
                   wait_left, collect_left, npushed, pushers, delivered, active,
                   interleaved, checked>>

\* The Chronograph is dropped as if it alone owned the recorder.
DropChronograph_sole_owner ==
    /\ handle
    /\ handle' = FALSE
    /\ arc_drop(0)
    /\ UNCHANGED <<idVars, spanVars, globalVars, localVars, batch_size_threshold, queue, ppc,
                   cpc, buf, wait_left, collect_left, npushed, pushers, delivered, active,
                   interleaved, checked>>

\* The Chronograph is dropped: its context is one of the shared ones.
DropChronograph ==
    /\ handle
    /\ handle' = FALSE
    /\ arc_drop(strong_count - 1)
    /\ UNCHANGED <<idVars, spanVars, globalVars, localVars, batch_size_threshold, queue, ppc,
                   cpc, buf, wait_left, collect_left, npushed, pushers, delivered, active,
                   interleaved, checked>>

\* recv_timeout returns Ok(Shutdown): run returns like a Wake would not.
RecvShutdown_as_wake ==
    /\ cpc = "recv"
    /\ chan # <<>>
    /\ Head(chan) = "Shutdown"
    /\ chan' = Tail(chan)
    /\ cpc' = "check"
    /\ wait_left' = 0
    /\ UNCHANGED <<idVars, spanVars, regVars, released, batch_size_threshold, queue, ppc,
                   buf, collect_left, npushed, pushers, delivered, active, interleaved,
                   checked>>

\* recv_timeout returns Ok(Shutdown): run returns, the thread ends.
RecvShutdown ==
    /\ cpc = "recv"
    /\ chan # <<>>
    /\ Head(chan) = "Shutdown"
    /\ chan' = Tail(chan)
    /\ cpc' = "done"
    /\ wait_left' = 0
    /\ UNCHANGED <<idVars, spanVars, regVars, released, batch_size_threshold, queue, ppc,
                   buf, collect_left, npushed, pushers, delivered, active, interleaved,
                   checked>>

CollectorRun == CollectorNext \/ RecvShutdown

SpanInit ==
    /\ slots = [s \in Slots |-> None]
    /\ last = None
    /\ rec_count = [i \in 0..(MaxSpans - 1) |-> 0]
    /\ proc_count = [i \in 0..(MaxSpans - 1) |-> 0]
    /\ clones = 0
    /\ ncalls = 0

IdInit ==
    /\ next_id = 0
    /\ pc = [t \in Threads |-> "idle"]
    /\ local_id = [t \in Threads |-> 0]
    /\ alloc = <<>>
    /\ returned = <<>>
    /\ decided = {}

\* BatchingSpanRecorder::start: an empty queue, an empty channel, the collector
\* thread spawned with next_collect_time = now + batch_time_threshold.
BatchInit ==
    /\ queue = <<>>
    /\ chan = <<>>
    /\ ppc = [p \in Producers |-> "idle"]
    /\ cpc = "recv"
    /\ buf = <<>>
    /\ wait_left = TimeThreshold
    /\ collect_left = TimeThreshold
    /\ npushed = 0
    /\ pushers = {}
    /\ delivered = <<>>
    /\ active = {}
    /\ interleaved = FALSE
    /\ checked = FALSE
    /\ released = FALSE

\* ------------------------------------------------- the global Chronograph
\* The Chronograph the k-th init call of the process passes, and the one the
\* fallback's closure builds on its k-th run.
UserChronograph(k) == [recorder |-> "user", n |-> k]

NoopChronograph(k) == [recorder |-> "NoOp", n |-> k]

InitDone == GLOBAL_CHRONOGRAPH # None

\* init(chronograph), the second call replacing the first.
init_replace(t) ==
    /\ gpc[t] = "idle"
    /\ Len(inits) < MaxInit
    /\ GLOBAL_CHRONOGRAPH' = UserChronograph(Len(inits) + 1)
    /\ inits' = Append(inits, [by |-> t, chronograph |-> UserChronograph(Len(inits) + 1),
                                ok |-> TRUE])
    /\ UNCHANGED <<idVars, spanVars, batchVars, arcVars, localVars, NOOP_CHRONOGRAPH, gpc, gcall,
                   gret, noops>>

\* init(chronograph): OnceLock::set stores the value if the cell is empty and
\* is an error otherwise, in which case init panics.
init(t) ==
    /\ gpc[t] = "idle"
    /\ Len(inits) < MaxInit
    /\ LET chronograph == UserChronograph(Len(inits) + 1) IN
        IF GLOBAL_CHRONOGRAPH = None
        THEN /\ GLOBAL_CHRONOGRAPH' = chronograph
             /\ inits' = Append(inits, [by |-> t, chronograph |-> chronograph, ok |-> TRUE])
             /\ UNCHANGED gpc
        ELSE /\ inits' = Append(inits, [by |-> t, chronograph |-> chronograph, ok |-> FALSE])
             /\ gpc' = [gpc EXCEPT ![t] = "panicked"]
             /\ UNCHANGED GLOBAL_CHRONOGRAPH
    /\ UNCHANGED <<idVars, spanVars, batchVars, arcVars, localVars, NOOP_CHRONOGRAPH, gcall, gret, noops>>

\* A thread calls global().
GlobalCall(t) ==
    /\ gpc[t] = "idle"
    /\ gpc' = [gpc EXCEPT ![t] = "called"]
    /\ gcall' = [gcall EXCEPT ![t] = [init_done |-> InitDone]]
    /\ UNCHANGED <<idVars, spanVars, batchVars, arcVars, localVars, GLOBAL_CHRONOGRAPH,
                   NOOP_CHRONOGRAPH, gret, inits, noops>>

\* What a global() call returns, with what held when it was called and holds now.
Returned(t, chronograph) ==
    [value |-> chronograph,
     init_done_at_call |-> gcall[t].init_done,
     init_done_at_return |-> InitDone]

\* GLOBAL_CHRONOGRAPH.get(): Some is returned; None takes the fallback.
GlobalGet(t) ==
    /\ gpc[t] = "called"
    /\ IF GLOBAL_CHRONOGRAPH # None
       THEN /\ gret' = [gret EXCEPT ![t] = Returned(t, GLOBAL_CHRONOGRAPH)]
            /\ gpc' = [gpc EXCEPT ![t] = "idle"]
       ELSE /\ gpc' = [gpc EXCEPT ![t] = "fallback"]
            /\ UNCHANGED gret
    /\ UNCHANGED <<idVars, spanVars, batchVars, arcVars, localVars, GLOBAL_CHRONOGRAPH,
                   NOOP_CHRONOGRAPH, gcall, inits, noops>>

\* get_noop_chronograph, the closure run by every call.
get_noop_chronograph_rebuilt(t) ==
    /\ gpc[t] = "fallback"
    /\ NOOP_CHRONOGRAPH' = NoopChronograph(noops + 1)
    /\ noops' = noops + 1
    /\ gret' = [gret EXCEPT ![t] = Returned(t, NOOP_CHRONOGRAPH')]
    /\ gpc' = [gpc EXCEPT ![t] = "idle"]
    /\ UNCHANGED <<idVars, spanVars, batchVars, arcVars, localVars, GLOBAL_CHRONOGRAPH, gcall, inits>>

\* get_noop_chronograph: NOOP_CHRONOGRAPH.get_or_init runs the closure if the
\* cell is empty, and returns the cell's value.
get_noop_chronograph(t) ==
    /\ gpc[t] = "fallback"
    /\ IF NOOP_CHRONOGRAPH = None
       THEN /\ NOOP_CHRONOGRAPH' = NoopChronograph(noops + 1)
            /\ noops' = noops + 1
       ELSE UNCHANGED <<NOOP_CHRONOGRAPH, noops>>
    /\ gret' = [gret EXCEPT ![t] = Returned(t, NOOP_CHRONOGRAPH')]
    /\ gpc' = [gpc EXCEPT ![t] = "idle"]
    /\ UNCHANGED <<idVars, spanVars, batchVars, arcVars, localVars, GLOBAL_CHRONOGRAPH, gcall, inits>>

\* ------------------------------------------------ the thread-local slots
\* start_threadlocal_span: global().start_span() is evaluated, then passed to
\* set_threadlocal_span.
start_threadlocal_span(t) ==
    /\ lpc[t] = "idle"
    /\ InitDone
    /\ next_id < MaxSpans
    /\ arg' = [arg EXCEPT ![t] = NewSpan(next_id)]
    /\ next_id' = fetch_add(next_id)
    /\ decided' = decided \cup {<<next_id, NewSpan(next_id).sampled>>}
    /\ lpc' = [lpc EXCEPT ![t] = "set"]
    /\ UNCHANGED <<sample_rate, pc, local_id, alloc, returned, spanVars, batchVars,
                   globalVars, arcVars, CURRENT_SPAN, got, finalized_by>>

\* set_threadlocal_span(span) is called with the Span the owner s holds.
set_threadlocal_span(t, s) ==
    /\ lpc[t] = "idle"
    /\ slots[s] # None
    /\ arg' = [arg EXCEPT ![t] = slots[s]]
    /\ slots' = [slots EXCEPT ![s] = None]
    /\ lpc' = [lpc EXCEPT ![t] = "set"]
    /\ UNCHANGED <<idVars, last, rec_count, proc_count, clones, ncalls, batchVars,
                   globalVars, arcVars, CURRENT_SPAN, got, finalized_by>>

\* The assignment *s.borrow_mut() = Some(span), the new value written first and
\* the old one dropped afterwards.
SetDropOld_after_store(t) ==
    /\ lpc[t] = "set"
    /\ IF CURRENT_SPAN[t] # None
       THEN /\ drop_in_place(CURRENT_SPAN[t])
            /\ finalized_by' = [finalized_by EXCEPT ![CURRENT_SPAN[t].span_id] = "replace"]
       ELSE UNCHANGED <<last, rec_count, proc_count, finalized_by>>
    /\ CURRENT_SPAN' = [CURRENT_SPAN EXCEPT ![t] = arg[t]]
    /\ lpc' = [lpc EXCEPT ![t] = "store"]
    /\ UNCHANGED <<idVars, slots, clones, ncalls, batchVars, arcVars, globalVars, arg, got>>

\* The assignment *s.borrow_mut() = Some(span), first half: the value the slot
\* holds is dropped in place.
SetDropOld(t) ==
    /\ lpc[t] = "set"
    /\ IF CURRENT_SPAN[t] # None
       THEN /\ drop_in_place(CURRENT_SPAN[t])
            /\ finalized_by' = [finalized_by EXCEPT ![CURRENT_SPAN[t].span_id] = "replace"]
       ELSE UNCHANGED <<last, rec_count, proc_count, finalized_by>>
    /\ lpc' = [lpc EXCEPT ![t] = "store"]
    /\ UNCHANGED <<idVars, slots, clones, ncalls, batchVars, arcVars, globalVars, CURRENT_SPAN,
                   arg, got>>

\* The assignment, second half: the new value is written to the slot.
SetStore(t) ==
    /\ lpc[t] = "store"
    /\ CURRENT_SPAN' = [CURRENT_SPAN EXCEPT ![t] = arg[t]]
    /\ arg' = [arg EXCEPT ![t] = None]
    /\ lpc' = [lpc EXCEPT ![t] = "idle"]
    /\ UNCHANGED <<idVars, spanVars, batchVars, arcVars, globalVars, got, finalized_by>>

\* get_threadlocal_span, starting a span whatever the slot holds.
get_threadlocal_span_fresh(t) ==
    /\ lpc[t] = "idle"
    /\ InitDone
    /\ next_id < MaxSpans
    /\ CURRENT_SPAN' = [CURRENT_SPAN EXCEPT ![t] = NewSpan(next_id)]
    /\ next_id' = fetch_add(next_id)
    /\ decided' = decided \cup {<<next_id, NewSpan(next_id).sampled>>}
    /\ got' = [got EXCEPT ![t] = {CURRENT_SPAN'[t].span_id}]
    /\ UNCHANGED <<sample_rate, pc, local_id, alloc, returned, spanVars, batchVars,
                   globalVars, arcVars, arg, lpc, finalized_by>>

\* get_threadlocal_span: a span is started from global() if the slot is empty;
\* a reference to the span in the slot is returned.
get_threadlocal_span(t) ==
    /\ lpc[t] = "idle"
    /\ InitDone
    /\ IF CURRENT_SPAN[t] = None
       THEN /\ next_id < MaxSpans
            /\ CURRENT_SPAN' = [CURRENT_SPAN EXCEPT ![t] = NewSpan(next_id)]
            /\ next_id' = fetch_add(next_id)
            /\ decided' = decided \cup {<<next_id, NewSpan(next_id).sampled>>}
       ELSE UNCHANGED <<CURRENT_SPAN, next_id, decided>>
    /\ got' = [got EXCEPT ![t] = {CURRENT_SPAN'[t].span_id}]
    /\ UNCHANGED <<sample_rate, pc, local_id, alloc, returned, spanVars, batchVars,
                   globalVars, arcVars, arg, lpc, finalized_by>>

\* The reference a get returned is valid while the slot holds that span.
RefValid(t) ==
    /\ CURRENT_SPAN[t] # None
    /\ CURRENT_SPAN[t].span_id \in got[t]

\* get_threadlocal_span().record_instant(d): the call is made through the
\* reference the get before it returned.
RecordThroughRef(t, d) ==
    /\ lpc[t] = "idle"
    /\ RefValid(t)
    /\ ncalls < MaxCalls
    /\ CURRENT_SPAN' = [CURRENT_SPAN EXCEPT ![t] =
            Called(record_instant(@, d), [datapoint_id |-> d, value |-> "Instant"])]
    /\ ncalls' = ncalls + 1
    /\ got' = [got EXCEPT ![t] = {}]
    /\ UNCHANGED <<idVars, slots, last, rec_count, proc_count, clones, batchVars,
                   globalVars, arcVars, arg, lpc, finalized_by>>

\* take_threadlocal_span, the Span taken dropped rather than returned.
take_threadlocal_span_dropped(t, s) ==
    /\ lpc[t] = "idle"
    /\ slots[s] = None
    /\ CURRENT_SPAN' = [CURRENT_SPAN EXCEPT ![t] = None]
    /\ IF CURRENT_SPAN[t] # None
       THEN /\ drop_in_place(CURRENT_SPAN[t])
            /\ finalized_by' = [finalized_by EXCEPT ![CURRENT_SPAN[t].span_id] = "take"]
       ELSE UNCHANGED <<last, rec_count, proc_count, finalized_by>>
    /\ UNCHANGED <<idVars, slots, clones, ncalls, batchVars, arcVars, globalVars, arg, lpc, got>>

\* take_threadlocal_span: Option::take on the slot; the value goes to the
\* caller, here to the owner s.
take_threadlocal_span(t, s) ==
    /\ lpc[t] = "idle"
    /\ slots[s] = None
    /\ CURRENT_SPAN' = [CURRENT_SPAN EXCEPT ![t] = None]
    /\ slots' = [slots EXCEPT ![s] = CURRENT_SPAN[t]]
    /\ UNCHANGED <<idVars, last, rec_count, proc_count, clones, ncalls, batchVars,
                   globalVars, arcVars, arg, lpc, got, finalized_by>>

\* end_threadlocal_span, the Span left in the slot.
end_threadlocal_span_kept(t) ==
    /\ lpc[t] = "idle"
    /\ IF CURRENT_SPAN[t] # None
       THEN /\ drop_in_place(CURRENT_SPAN[t])
            /\ finalized_by' = [finalized_by EXCEPT ![CURRENT_SPAN[t].span_id] = "end"]
       ELSE UNCHANGED <<last, rec_count, proc_count, finalized_by>>
    /\ UNCHANGED <<idVars, slots, clones, ncalls, batchVars, arcVars, globalVars, arg, lpc, got,
                   CURRENT_SPAN>>

\* end_threadlocal_span: Option::take on the slot, and the value taken goes
\* out of scope at the end of the statement.
end_threadlocal_span(t) ==
    /\ lpc[t] = "idle"
    /\ CURRENT_SPAN' = [CURRENT_SPAN EXCEPT ![t] = None]
    /\ IF CURRENT_SPAN[t] # None
       THEN /\ drop_in_place(CURRENT_SPAN[t])
            /\ finalized_by' = [finalized_by EXCEPT ![CURRENT_SPAN[t].span_id] = "end"]
       ELSE UNCHANGED <<last, rec_count, proc_count, finalized_by>>
    /\ UNCHANGED <<idVars, slots, clones, ncalls, batchVars, arcVars, globalVars, arg, lpc, got>>

\* Process start: neither OnceLock is set, every thread-local slot is empty.
GlobalInit ==
    /\ GLOBAL_CHRONOGRAPH = None
    /\ NOOP_CHRONOGRAPH = None
    /\ gpc = [t \in Threads |-> "idle"]
    /\ gcall = [t \in Threads |-> None]
    /\ gret = [t \in Threads |-> None]
    /\ inits = <<>>
    /\ noops = 0

ArcInit == handle = TRUE

LocalInit ==
    /\ CURRENT_SPAN = [t \in Threads |-> None]
    /\ arg = [t \in Threads |-> None]
    /\ lpc = [t \in Threads |-> "idle"]
    /\ got = [t \in Threads |-> {}]
    /\ finalized_by = [i \in 0..(MaxSpans - 1) |-> ""]

\* ---- the span lifecycle of one Chronograph
Init ==
    /\ sample_rate \in 0..MaxRate
    /\ IdInit
    /\ SpanInit
    /\ batch_size_threshold = 1
    /\ BatchInit
    /\ GlobalInit
    /\ LocalInit
    /\ ArcInit

Next ==
    \/ \E s \in Slots : StartSpan(s)
    \/ \E s \in Slots, d \in InstantIds : RecordInstant(s, d)
    \/ \E s \in Slots, d \in UnixTimeIds : RecordUnixTime(s, d)
    \/ \E s \in Slots, d \in ValueIds, v \in UserValues : RecordValue(s, d, v)
    \/ \E a \in Slots, b \in Slots : Move(a, b)
    \/ \E a \in Slots, b \in Slots : Clone(a, b)
    \/ \E s \in Slots : Drop(s)

Spec == Init /\ [][Next]_vars

\* ---- concurrent start_span calls on one Chronograph
InitIds ==
    /\ sample_rate \in 0..MaxRate
    /\ IdInit
    /\ SpanInit
    /\ batch_size_threshold = 1
    /\ BatchInit
    /\ GlobalInit
    /\ LocalInit
    /\ ArcInit

NextIds ==
    \/ \E t \in Threads : StartSpanFetch(t)
    \/ \E t \in Threads : StartSpanBuild(t)

SpecIds == InitIds /\ [][NextIds]_vars

\* ---- the sampling decisions of successive start_span calls, per rate
SampleNext ==
    /\ next_id < MaxSampleId
    /\ decided' = decided \cup {<<next_id, NewSpan(next_id).sampled>>}
    /\ next_id' = fetch_add(next_id)
    /\ UNCHANGED <<sample_rate, pc, local_id, alloc, returned, spanVars, batchVars, regVars>>

InitSample ==
    /\ sample_rate \in 0..MaxSampleRate
    /\ IdInit
    /\ SpanInit
    /\ batch_size_threshold = 1
    /\ BatchInit
    /\ GlobalInit
    /\ LocalInit
    /\ ArcInit

SpecSample == InitSample /\ [][SampleNext]_vars

\* ---- a batching recorder, its producers and its collector thread
InitBatch ==
    /\ sample_rate = 0
    /\ IdInit
    /\ SpanInit
    /\ batch_size_threshold \in 1..MaxThreshold
    /\ BatchInit
    /\ GlobalInit
    /\ LocalInit
    /\ ArcInit

NextBatch ==
    \/ \E p \in Producers : RecordSpanPush(p)
    \/ \E p \in Producers : RecordSpanSignal(p)
    \/ CollectorNext
    \/ Tick

SpecBatch == InitBatch /\ [][NextBatch]_vars

\* ---- the same under load that does not end, the collector thread scheduled
\* fairly, its callback returning, and time passing
InitBatchLive ==
    /\ sample_rate = 0
    /\ IdInit
    /\ SpanInit
    /\ batch_size_threshold \in {1, MaxPush}
    /\ BatchInit
    /\ GlobalInit
    /\ LocalInit
    /\ ArcInit

NextBatchLive ==
    \/ NextBatch
    \/ \E p \in Producers : RecordSpanPushMore(p)

SpecBatchLive ==
    /\ InitBatchLive
    /\ [][NextBatchLive]_vars
    /\ WF_vars(CollectorNext)
    /\ WF_vars(Tick)

\* ---- a batching recorder from its start to its release, the collector thread
\* scheduled fairly and its callback returning
NextBatchShutdown ==
    \/ \E p \in Producers : RecordSpanPush(p)
    \/ \E p \in Producers : RecordSpanSignal(p)
    \/ ReleaseRecorder
    \/ CollectorRun
    \/ Tick

SpecBatchShutdown ==
    /\ InitBatch
    /\ [][NextBatchShutdown]_vars
    /\ WF_vars(CollectorRun)

\* ---- the span lifecycle with processors whose call can panic
NextHookPanic ==
    \/ \E s \in Slots : StartSpan(s)
    \/ \E s \in Slots, d \in InstantIds : RecordInstant(s, d)
    \/ \E s \in Slots, d \in UnixTimeIds : RecordUnixTime(s, d)
    \/ \E s \in Slots, d \in ValueIds, v \in UserValues : RecordValue(s, d, v)
    \/ \E s \in Slots : Drop(s)
    \/ \E s \in Slots, failing \in 1..NProcs : DropUnwinding(s, failing)

SpecHookPanic == Init /\ [][NextHookPanic]_vars

\* ---- a batching recorder whose collector callback can panic
NextBatchPanic ==
    \/ NextBatchShutdown
    \/ CollectPanics

SpecBatchPanic == InitBatch /\ [][NextBatchPanic]_vars

\* ---- a Chronograph with a batching recorder, the spans it creates dropped by
\* the producer threads, and the Chronograph dropped at any moment
InitShared ==
    /\ sample_rate \in {0, MaxRate}
    /\ IdInit
    /\ SpanInit
    /\ batch_size_threshold \in 1..MaxPush
    /\ BatchInit
    /\ GlobalInit
    /\ LocalInit
    /\ ArcInit

NextShared ==
    \/ \E s \in Slots : StartSpanShared(s)
    \/ \E p \in Producers, s \in Slots : FinalizePush(p, s)
    \/ \E p \in Producers : FinalizeSignal(p)
    \/ \E p \in Producers : FinalizeFields(p)
    \/ DropChronograph
    \/ CollectorRun
    \/ Tick

SpecShared == InitShared /\ [][NextShared]_vars

\* ---- the threads of a process calling init and global
NextGlobal ==
    \/ \E t \in Threads : init(t)
    \/ \E t \in Threads : GlobalCall(t)
    \/ \E t \in Threads : GlobalGet(t)
    \/ \E t \in Threads : get_noop_chronograph(t)

SpecGlobal == Init /\ [][NextGlobal]_vars

\* ---- threads using their thread-local slots, after main has installed the
\* global Chronograph: this model's Chronograph. A Span that take returned is
\* held by one of the owners Holders until it is set or dropped.
LocalThreads == 1..NLocalThreads

Holders == 1..NHolders

InitLocal ==
    /\ sample_rate = MaxRate
    /\ IdInit
    /\ SpanInit
    /\ batch_size_threshold = 1
    /\ BatchInit
    /\ GLOBAL_CHRONOGRAPH = UserChronograph(1)
    /\ NOOP_CHRONOGRAPH = None
    /\ gpc = [t \in Threads |-> "idle"]
    /\ gcall = [t \in Threads |-> None]
    /\ gret = [t \in Threads |-> None]
    /\ inits = <<[by |-> 1, chronograph |-> UserChronograph(1), ok |-> TRUE]>>
    /\ noops = 0
    /\ LocalInit
    /\ ArcInit

NextLocal ==
    \/ \E t \in LocalThreads : start_threadlocal_span(t)
    \/ \E t \in LocalThreads, s \in Holders : set_threadlocal_span(t, s)
    \/ \E t \in LocalThreads : SetDropOld(t)
    \/ \E t \in LocalThreads : SetStore(t)
    \/ \E t \in LocalThreads : get_threadlocal_span(t)
    \/ \E t \in LocalThreads : RecordThroughRef(t, t)
    \/ \E t \in LocalThreads, s \in Holders : take_threadlocal_span(t, s)
    \/ \E t \in LocalThreads : end_threadlocal_span(t)
    \/ \E s \in Holders : Drop(s)

SpecLocal == InitLocal /\ [][NextLocal]_vars

\* ---- the same with every thread, and few spans: a span relocated from one
\* thread's slot to another's
NextRelocate ==
    \/ \E t \in Threads : next_id < MaxRelocated /\ start_threadlocal_span(t)
    \/ \E t \in Threads, s \in Holders : set_threadlocal_span(t, s)
    \/ \E t \in Threads : SetDropOld(t)
    \/ \E t \in Threads : SetStore(t)
    \/ \E t \in Threads : (CURRENT_SPAN[t] = None => next_id < MaxRelocated)
                              /\ get_threadlocal_span(t)
    \/ \E t \in Threads : RecordThroughRef(t, t)
    \/ \E t \in Threads, s \in Holders : take_threadlocal_span(t, s)
    \/ \E t \in Threads : end_threadlocal_span(t)
    \/ \E s \in Holders : Drop(s)

SpecRelocate == InitLocal /\ [][NextRelocate]_vars

\* ---- one thread starting and finalizing spans one after another, on a
\* Chronograph that samples every span and whose recorder is SpanRecorder::Dyn:
\* record_span is the call of the user callback
NoSpanHeld == \A s \in Slots : slots[s] = None

InitDirect ==
    /\ sample_rate \in {0, 1}
    /\ IdInit
    /\ SpanInit
    /\ batch_size_threshold = 1
    /\ BatchInit
    /\ GlobalInit
    /\ LocalInit
    /\ ArcInit

NextDirect ==
    \/ \E s \in Slots : NoSpanHeld /\ StartSpan(s)
    \/ \E s \in Slots, d \in InstantIds : RecordInstant(s, d)
    \/ \E s \in Slots, d \in UnixTimeIds : RecordUnixTime(s, d)
    \/ \E s \in Slots, d \in ValueIds, v \in UserValues : RecordValue(s, d, v)
    \/ \E s \in Slots : Drop(s)

SpecDirect == InitDirect /\ [][NextDirect]_vars

\* ================================================================ claims
Live(s) == slots[s] # None

Unsampled(i) == <<i, FALSE>> \in decided

Sampled(i) == <<i, TRUE>> \in decided

\* C1: an unsampled span never holds a record, whatever record_* calls are made
\* on it, and its finalization invokes no processor and no recorder.
C1_UnsampledSilent ==
    /\ \A s \in Slots : (Live(s) /\ ~slots[s].sampled) => slots[s].records = <<>>
    /\ (last # None /\ ~last.span.sampled) =>
          (last.span.records = <<>> /\ last.invoked = <<>>)
    /\ \A i \in 0..(MaxSpans - 1) : Unsampled(i) => (rec_count[i] = 0 /\ proc_count[i] = 0)

\* C1 witness: an unsampled span was finalized after two or more record_* calls.
C1_Witness ==
    /\ last # None
    /\ ~last.span.sampled
    /\ Len(last.span.calls) >= 2
    /\ rec_count[last.span.span_id] = 0

Held(i) == \E s \in Slots : Live(s) /\ slots[s].span_id = i

\* C2: every sampled id is finalized exactly once: the recorder is never invoked
\* twice with one id, the processor chain never runs twice for one id, and once
\* no owner holds a span of that id both have run exactly once.
C2_FinalizedExactlyOnce ==
    \A i \in 0..(MaxSpans - 1) :
        Sampled(i) =>
            /\ rec_count[i] <= 1
            /\ proc_count[i] <= NProcs
            /\ ~Held(i) => (rec_count[i] = 1 /\ proc_count[i] = NProcs)

\* C3: the ids fetched are 0, 1, 2, ... in the order the increments took effect;
\* the ids handed out are pairwise distinct, and together with the ids fetched by
\* the calls still running they are exactly 0..n-1 after n increments.
C3_IdsDistinctContiguous ==
    /\ \A i \in 1..Len(alloc) : alloc[i] = i - 1
    /\ \A i, j \in 1..Len(returned) : i # j => returned[i] # returned[j]
    /\ \A t, u \in Threads : (t # u /\ pc[t] = "fetched" /\ pc[u] = "fetched")
                                => local_id[t] # local_id[u]
    /\ {returned[i] : i \in 1..Len(returned)} \cup {local_id[t] : t \in {u \in Threads : pc[u] = "fetched"}}
          = 0..(Len(alloc) - 1)
    /\ (\A t \in Threads : pc[t] = "idle") =>
          {returned[i] : i \in 1..Len(returned)} = 0..(Len(returned) - 1)

\* C3 witness: two calls overlapped and returned in the reverse of the order of
\* their increments.
C3_Witness ==
    /\ Len(returned) >= 3
    /\ \E i, j \in 1..Len(returned) : i < j /\ returned[i] > returned[j]

\* C4: the decision is true for rate 0, and otherwise true exactly when the id is
\* a multiple of the rate; for a power-of-two rate the mask test agrees with the
\* modulo test; rate 4 samples exactly 0 and 4 among the ids 0..7; rate 1
\* samples every id.
C4_SamplingDecision ==
    /\ \A d \in decided : d[2] = (sample_rate = 0 \/ d[1] % sample_rate = 0)
    /\ \A d \in decided :
          sample_rate \in {1, 2, 4, 8, 16} =>
              ((BitAnd(d[1], sample_rate - 1) = 0) = (d[1] % sample_rate = 0))
    /\ (sample_rate = 4 /\ next_id >= 8) => {i \in 0..7 : Sampled(i)} = {0, 4}
    /\ sample_rate = 1 => \A d \in decided : d[2]

\* C4 witness: eight spans were started at rate 4.
C4_Witness == sample_rate = 4 /\ next_id = 8 /\ Sampled(4) /\ Unsampled(7)

\* C5: the finalization of a sampled span invokes processor 1, ..., processor
\* NProcs in registration order, each once with the span's SpanData, and then
\* the recorder with the same SpanData, last.
C5_ProcessorsThenRecorder ==
    (last # None /\ last.span.sampled) =>
        /\ Len(last.invoked) = NProcs + 1
        /\ \A k \in 1..NProcs :
              /\ last.invoked[k].hook = "processor"
              /\ last.invoked[k].proc = k
              /\ last.invoked[k].data.span_id = last.span.span_id
              /\ last.invoked[k].data.records = last.span.records
        /\ last.invoked[NProcs + 1].hook = "recorder"
        /\ last.invoked[NProcs + 1].data.span_id = last.span.span_id
        /\ last.invoked[NProcs + 1].data.records = last.span.records

\* C5 witness: a sampled span holding a record was finalized with two or more
\* processors registered.
C5_Witness ==
    /\ last # None
    /\ last.span.sampled
    /\ last.span.records # <<>>
    /\ Len(last.invoked) >= 3

\* C6: the records of a sampled span are, in order, the record_* calls made on
\* it, while it is held and in the SpanData every hook receives at finalization.
C6_RecordsAreCallsInOrder ==
    /\ \A s \in Slots : (Live(s) /\ slots[s].sampled) => slots[s].records = slots[s].calls
    /\ (last # None /\ last.span.sampled) =>
          \A k \in 1..Len(last.invoked) : last.invoked[k].data.records = last.span.calls

\* C6 witness: a sampled span was finalized after two different record_* calls.
C6_Witness ==
    /\ last # None
    /\ last.span.sampled
    /\ Len(last.span.calls) >= 2
    /\ last.span.calls[1] # last.span.calls[2]
    /\ last.invoked # <<>>

AllItems(n) == [j \in 1..n |-> j]

ProducersIdle == \A p \in Producers : ppc[p] = "idle"

\* The collector has consumed every signal and waits in recv_timeout.
CollectorWaiting == cpc = "recv" /\ chan = <<>>

\* C7: one producer pushes exactly batch_size_threshold items and no drain
\* interleaves the pushes: the callback is never invoked more than once, only with
\* all the items, and it has been invoked once the wake signal is consumed.
C7_SizePathOneBatch ==
    (npushed = batch_size_threshold /\ Cardinality(pushers) = 1 /\ ~interleaved) =>
        /\ Len(delivered) <= 1
        /\ \A i \in 1..Len(delivered) : delivered[i].batch = AllItems(npushed)
        /\ (ProducersIdle /\ CollectorWaiting) => Len(delivered) = 1

\* C7 witness: the wake signal of the threshold-th push was consumed before the
\* first timeout, and the one batch holds two or more items.
C7_Witness ==
    /\ npushed = batch_size_threshold
    /\ npushed >= 2
    /\ Cardinality(pushers) = 1
    /\ ~interleaved
    /\ ProducersIdle
    /\ CollectorWaiting
    /\ collect_left > 0
    /\ Len(delivered) = 1

\* The case of C8: fewer items than the threshold were pushed, and a check at or
\* past the deadline has run, and its drain has ended, since the last push.
PartialBatchWaited ==
    /\ npushed >= 1
    /\ npushed < batch_size_threshold
    /\ checked
    /\ ProducersIdle
    /\ cpc = "recv"

\* C8 as stated: after fewer pushes than the threshold and a wait past the time
\* threshold, the callback was invoked exactly once, with exactly the pushed items.
C8_TimePathOneBatch_AsStated ==
    PartialBatchWaited =>
        (Len(delivered) = 1 /\ delivered[1].batch = AllItems(npushed))

\* C8 amended: the same, provided no drain interleaved the pushes.
C8_TimePathOneBatch ==
    (PartialBatchWaited /\ ~interleaved) =>
        (Len(delivered) = 1 /\ delivered[1].batch = AllItems(npushed))

\* C8 witness: a partial batch was delivered on the time path.
C8_Witness ==
    /\ PartialBatchWaited
    /\ ~interleaved
    /\ Len(delivered) = 1
    /\ delivered[1].by = Collector

\* C10: every callback invocation is made by the collector thread, no thread
\* other than the collector is ever inside the callback, and so at most one
\* invocation is in progress.
C10_CallbackOnCollectorOnly ==
    /\ \A i \in 1..Len(delivered) : delivered[i].by = Collector
    /\ active \subseteq {Collector}
    /\ Cardinality(active) <= 1

\* C10 witness: the callback runs on the collector thread while a producer is
\* inside record_span with the queue at the threshold.
C10_Witness ==
    /\ active = {Collector}
    /\ \E p \in Producers : ppc[p] = "pushed"
    /\ Len(queue) >= batch_size_threshold
    /\ delivered # <<>>

InQueue(j) == \E i \in 1..Len(queue) : queue[i] = j

InBatch(j) == \E i \in 1..Len(buf) : buf[i] = j

Delivered(j) == \E i \in 1..Len(delivered) : \E k \in 1..Len(delivered[i].batch) : delivered[i].batch[k] = j

\* C9 as stated: every item pushed is eventually contained in a batch passed to
\* the collector callback.
C9_EventuallyDelivered_AsStated ==
    \A j \in 1..MaxPush : InQueue(j) ~> Delivered(j)

\* Every drain loop of the collector ends: it finds the queue empty.
DrainEnds == [](cpc = "pop" => <>(cpc # "pop"))

\* C9 amended: every item pushed is eventually drained, that is popped off the
\* shared queue by the collector thread into its batch; and it is eventually
\* contained in a batch passed to the callback if every drain loop ends.
C9_EventuallyDrained ==
    \A j \in 1..MaxPush :
        /\ InQueue(j) ~> (InBatch(j) \/ Delivered(j))
        /\ DrainEnds => (InQueue(j) ~> Delivered(j))

\* C9 witness: an item is drained into the batch while pushes go on.
C9_Witness ==
    /\ cpc = "pop"
    /\ InBatch(1)
    /\ queue # <<>>
    /\ \E p \in Producers : ppc[p] = "pushed"

\* C11: once the recorder is released the Shutdown signal is sent and the
\* collector thread eventually terminates; once it has terminated it stays so,
\* it invokes the callback no more and pops nothing more, so what the queue then
\* holds is never delivered.
C11_ShutdownNoFinalFlush ==
    /\ [](released => (cpc = "done" \/ \E i \in 1..Len(chan) : chan[i] = "Shutdown"))
    /\ released ~> (cpc = "done")
    /\ [][cpc = "done" => (cpc' = "done" /\ delivered' = delivered /\ queue' = queue
                            /\ buf' = buf /\ active' = active)]_vars
    /\ [](cpc = "done" => (active = {} /\ buf = <<>>))

\* C11 witness: the thread has terminated with an item left in the queue that no
\* batch contains, after it had delivered another.
C11_Witness ==
    /\ released
    /\ cpc = "done"
    /\ delivered # <<>>
    /\ \E j \in 1..MaxPush : InQueue(j) /\ ~Delivered(j)

Succeeded == {i \in 1..Len(inits) : inits[i].ok}

\* C12: of the init calls made, exactly one has succeeded, the first; every
\* other has panicked its thread; and the Chronograph installed is, and stays,
\* the one the successful call passed.
C12_InitAtMostOnce ==
    /\ inits # <<>> => Succeeded = {1}
    /\ \A i \in 1..Len(inits) : ~inits[i].ok => gpc[inits[i].by] = "panicked"
    /\ inits # <<>> => GLOBAL_CHRONOGRAPH = inits[1].chronograph
    /\ inits = <<>> => GLOBAL_CHRONOGRAPH = None
    /\ \A t \in Threads :
          (gret[t] # None /\ gret[t].init_done_at_call) => gret[t].value = inits[1].chronograph

\* C12 witness: a second init has failed and a global() called after it returned
\* the Chronograph of the first.
C12_Witness ==
    /\ Len(inits) >= 2
    /\ inits[1].by # inits[2].by
    /\ \E t \in Threads : gret[t] # None /\ gret[t].init_done_at_call
                             /\ gret[t].value = inits[1].chronograph

IsNoop(chronograph) == chronograph.recorder = "NoOp"

\* C13 as stated: a global() that returns in a state where an init has completed
\* returns the Chronograph installed; otherwise it returns the one no-op instance.
C13_GlobalOrFallback_AsStated ==
    \A t \in Threads :
        gret[t] # None =>
            IF gret[t].init_done_at_return
            THEN gret[t].value = GLOBAL_CHRONOGRAPH
            ELSE gret[t].value = NoopChronograph(1)

\* C13 amended: a global() called after an init has completed returns the
\* Chronograph installed; one whose read of the cell preceded it returns the
\* no-op instance, which is built at most once, only by calls made before init
\* completed, and is the same on every such return; building it installs nothing.
C13_GlobalOrFallback ==
    /\ \A t \in Threads :
          gret[t] # None =>
              /\ gret[t].init_done_at_call => gret[t].value = GLOBAL_CHRONOGRAPH
              /\ ~gret[t].init_done_at_return => gret[t].value = NoopChronograph(1)
              /\ gret[t].value \in {GLOBAL_CHRONOGRAPH, NoopChronograph(1)}
              /\ IsNoop(gret[t].value) => ~gret[t].init_done_at_call
    /\ \A t \in Threads : gpc[t] = "fallback" => ~gcall[t].init_done
    /\ noops <= 1
    /\ (noops = 0) = (NOOP_CHRONOGRAPH = None)
    /\ NOOP_CHRONOGRAPH # None => NOOP_CHRONOGRAPH = NoopChronograph(1)
    /\ (NOOP_CHRONOGRAPH # None /\ inits = <<>>) => GLOBAL_CHRONOGRAPH = None
    /\ (NOOP_CHRONOGRAPH # None /\ inits # <<>>) => inits[1].ok

\* C13 witness: the fallback was used, then an init succeeded, then a global()
\* returned the Chronograph installed while another thread still held the no-op.
C13_Witness ==
    /\ noops = 1
    /\ inits # <<>>
    /\ \E t, u \in Threads :
          /\ gret[t] # None /\ IsNoop(gret[t].value) /\ ~gret[t].init_done_at_return
          /\ gret[u] # None /\ gret[u].init_done_at_call /\ gret[u].value = GLOBAL_CHRONOGRAPH

\* A step finalizes the span exactly once: the hooks run once for it if it is
\* sampled, and have never run for its id before; or a step finalizes nothing.
FinalizesOnce(span) ==
    /\ last'.span = span
    /\ IF span.sampled
       THEN /\ rec_count' = [rec_count EXCEPT ![span.span_id] = 1]
            /\ proc_count' = [proc_count EXCEPT ![span.span_id] = NProcs]
            /\ Len(last'.invoked) = NProcs + 1
       ELSE /\ rec_count' = rec_count
            /\ proc_count' = proc_count
            /\ last'.invoked = <<>>

FinalizesNothing == last' = last /\ rec_count' = rec_count /\ proc_count' = proc_count

ReplaceStep(t) == lpc[t] = "set" /\ lpc'[t] = "store"

StoreStep(t) == lpc[t] = "store" /\ lpc'[t] = "idle"

NeverTwice == \A i \in 0..(MaxSpans - 1) : rec_count[i] <= 1 /\ proc_count[i] <= NProcs

\* C14: in set_threadlocal_span and start_threadlocal_span the span the slot
\* holds is finalized exactly once, in a step that leaves the slot as it is; the
\* new span is written to the slot in a later step that finalizes nothing, and
\* after which the slot holds exactly the new span; no id is ever finalized twice.
C14_ReplacedFinalizedFirst ==
    /\ [][\A t \in Threads :
            /\ ReplaceStep(t) =>
                  /\ CURRENT_SPAN'[t] = CURRENT_SPAN[t]
                  /\ arg'[t] = arg[t]
                  /\ IF CURRENT_SPAN[t] # None
                     THEN FinalizesOnce(CURRENT_SPAN[t])
                     ELSE FinalizesNothing
            /\ StoreStep(t) =>
                  /\ CURRENT_SPAN'[t] = arg[t]
                  /\ FinalizesNothing
            /\ (lpc[t] # "idle" /\ CURRENT_SPAN'[t] # CURRENT_SPAN[t]) => StoreStep(t)]_vars
    /\ [](NeverTwice)
    /\ [](\A t \in Threads :
            (lpc[t] = "store" /\ CURRENT_SPAN[t] # None /\ CURRENT_SPAN[t].sampled) =>
                (rec_count[CURRENT_SPAN[t].span_id] = 1
                 /\ proc_count[CURRENT_SPAN[t].span_id] = NProcs))

\* C14 witness: a sampled span holding a record was finalized by a replacement,
\* and the slot now holds the span that replaced it.
C14_Witness ==
    /\ last # None
    /\ last.span.sampled
    /\ last.span.records # <<>>
    /\ finalized_by[last.span.span_id] = "replace"
    /\ rec_count[last.span.span_id] = 1
    /\ \E t \in Threads : /\ lpc[t] = "idle"
                           /\ CURRENT_SPAN[t] # None
                           /\ CURRENT_SPAN[t].span_id # last.span.span_id

\* C15: take_threadlocal_span empties the slot, hands the span that was current
\* (or nothing) to the caller as it was, and finalizes nothing; no id is ever
\* finalized twice, and the hooks of a finalization receive the records in the
\* order of the record calls made, on whichever thread.
C15_TakeMovesWithoutFinalizing ==
    /\ [][\A t \in Threads, s \in Holders :
            take_threadlocal_span(t, s) =>
                /\ CURRENT_SPAN'[t] = None
                /\ slots'[s] = CURRENT_SPAN[t]
                /\ FinalizesNothing
                /\ next_id' = next_id]_vars
    /\ [](NeverTwice)
    /\ []((last # None /\ last.span.sampled) =>
            /\ rec_count[last.span.span_id] = 1
            /\ \A k \in 1..Len(last.invoked) : last.invoked[k].data.records = last.span.calls)

\* C15 witness: a span recorded into on thread 1, then on thread 2, was
\* finalized on thread 2, once, with the two records in that order.
C15_Witness ==
    /\ last # None
    /\ last.span.sampled
    /\ last.span.records = <<[datapoint_id |-> 1, value |-> "Instant"],
                             [datapoint_id |-> 2, value |-> "Instant"]>>
    /\ finalized_by[last.span.span_id] = "end"
    /\ rec_count[last.span.span_id] = 1

\* C16: end_threadlocal_span leaves the slot empty and finalizes the span that
\* was current exactly once; on an empty slot it finalizes nothing; it never
\* creates a span nor consumes an id.
C16_EndFinalizesCurrent ==
    /\ [][\A t \in Threads :
            end_threadlocal_span(t) =>
                /\ CURRENT_SPAN'[t] = None
                /\ IF CURRENT_SPAN[t] # None
                   THEN FinalizesOnce(CURRENT_SPAN[t])
                   ELSE FinalizesNothing
                /\ next_id' = next_id
                /\ slots' = slots
                /\ \A u \in Threads \ {t} : CURRENT_SPAN'[u] = CURRENT_SPAN[u]]_vars
    /\ [](NeverTwice)

\* C16 witness: a sampled span holding records was finalized by end, once, and
\* every slot is empty.
C16_Witness ==
    /\ last # None
    /\ last.span.sampled
    /\ Len(last.span.records) >= 2
    /\ finalized_by[last.span.span_id] = "end"
    /\ rec_count[last.span.span_id] = 1
    /\ \A t \in Threads : CURRENT_SPAN[t] = None

\* C17: after get_threadlocal_span the slot is not empty and the reference
\* returned is to the span it holds; an empty slot gets a new span with the next
\* id, an occupied slot is left as it is and no id is consumed; get finalizes
\* nothing; and a record made through the reference is appended to that span.
C17_GetAlwaysYieldsCurrent ==
    [][\A t \in Threads :
          /\ get_threadlocal_span(t) =>
                /\ CURRENT_SPAN'[t] # None
                /\ got'[t] = {CURRENT_SPAN'[t].span_id}
                /\ FinalizesNothing
                /\ IF CURRENT_SPAN[t] = None
                   THEN /\ next_id' = next_id + 1
                        /\ CURRENT_SPAN'[t].span_id = next_id
                        /\ CURRENT_SPAN'[t].records = <<>>
                   ELSE /\ next_id' = next_id
                        /\ CURRENT_SPAN'[t] = CURRENT_SPAN[t]
          /\ RecordThroughRef(t, t) =>
                /\ CURRENT_SPAN'[t].span_id = CURRENT_SPAN[t].span_id
                /\ CURRENT_SPAN[t].sampled =>
                      CURRENT_SPAN'[t].records =
                          Append(CURRENT_SPAN[t].records,
                                 [datapoint_id |-> t, value |-> "Instant"])]_vars

\* C17 witness: a third get returns the one span started by the first, which
\* holds the records made through the first two.
C17_Witness ==
    \E t \in Threads :
        /\ RefValid(t)
        /\ CURRENT_SPAN[t].sampled
        /\ Len(CURRENT_SPAN[t].records) >= 2
        /\ next_id = 1

\* C18: with every span sampled and spans started and finalized one after
\* another, the callback has been invoked once for every span finalized, as part
\* of its finalization, and never for a span still held; when the latest
\* invocation carried id k the invocations so far carried exactly 0, ..., k, so
\* they came in the order 0, 1, ..., n-1; and each carried exactly the records
\* made on its span.
C18_DirectCallbackInOrder ==
    /\ \A i \in 0..(MaxSpans - 1) :
          rec_count[i] = (IF i < next_id /\ ~Held(i) THEN 1 ELSE 0)
    /\ last # None =>
          /\ last.span.sampled
          /\ \A i \in 0..(MaxSpans - 1) :
                rec_count[i] = (IF i <= last.span.span_id THEN 1 ELSE 0)
          /\ last.invoked # <<>>
          /\ last.invoked[Len(last.invoked)].hook = "recorder"
          /\ last.invoked[Len(last.invoked)].data.span_id = last.span.span_id
          /\ last.invoked[Len(last.invoked)].data.records = last.span.calls
          /\ Count(last.invoked, "recorder") = 1

\* C18 witness: the second of two spans was finalized, each after a record was
\* made on it, on a Chronograph of rate 1.
C18_Witness ==
    /\ sample_rate = 1
    /\ last # None
    /\ last.span.span_id = 1
    /\ Len(last.span.records) = 1
    /\ rec_count[0] = 1
    /\ rec_count[1] = 1
    /\ ncalls = 2
    /\ NoSpanHeld

\* C20: whatever the number of producers, a queue of batch_size_threshold or more
\* items has a wake signal on its way: when every record_span call has returned
\* and the collector waits in recv_timeout, either a signal is in the channel or
\* the queue holds fewer items than the threshold.
C20_WakeOnThreshold ==
    (ProducersIdle /\ cpc = "recv" /\ chan = <<>>) => Len(queue) < batch_size_threshold

\* The collector has just gone back to recv_timeout: no time has passed since.
JustBackInRecv == cpc = "recv" /\ wait_left = TimeThreshold

\* C21 (as stated): after every check, drain or no drain, the collector is back in
\* recv_timeout with next_collect_time = now + batch_time_threshold.
C21_DeadlineResetAfterEveryCheck_AsStated ==
    JustBackInRecv => collect_left = TimeThreshold

\* C21: a check whose test passes ends with next_collect_time reset to now +
\* batch_time_threshold, whether the drain found items and the callback was
\* invoked or not; a check whose test fails leaves next_collect_time as it was.
C21_DeadlineResetAfterDrain ==
    [][(cpc # "recv" /\ cpc' = "recv") =>
          IF cpc = "check"
          THEN /\ ~should_collect(Len(queue), batch_size_threshold, collect_left)
               /\ collect_left' = collect_left
          ELSE /\ cpc \in {"pop", "collect"}
               /\ collect_left' = TimeThreshold]_vars

\* A check at the deadline found the queue empty: no callback was invoked, and the
\* collector is back in recv_timeout with the deadline reset.
C21_Witness ==
    /\ JustBackInRecv
    /\ checked
    /\ delivered = <<>>
    /\ npushed = 0
    /\ collect_left = TimeThreshold

\* C22: an item leaves the queue only inside a drain; a drain starts only from a
\* check that found the queue length at or above batch_size_threshold or the time
\* at or past next_collect_time; a drain ends only with the queue empty; and no
\* batch passed to the collector callback is empty.
C22_DrainOnlyWhenDue ==
    /\ [](\A i \in 1..Len(delivered) : delivered[i].batch # <<>>)
    /\ [][/\ Len(queue') < Len(queue) => (cpc = "pop" /\ cpc' = "pop")
          /\ (cpc # "pop" /\ cpc' = "pop") =>
                /\ cpc = "check"
                /\ Len(queue) >= batch_size_threshold \/ collect_left = 0
          /\ (cpc = "pop" /\ cpc' # "pop") => (queue = <<>> /\ queue' = <<>>)]_vars

\* A check at the deadline, below the size threshold, has drained the whole queue
\* of several items and the callback runs with them.
C22_Witness ==
    /\ cpc = "collect"
    /\ queue = <<>>
    /\ delivered # <<>>
    /\ Len(delivered[Len(delivered)].batch) = MaxPush
    /\ MaxPush < batch_size_threshold

\* The latest drop was left by a panic.
Unwound == last # None /\ \E j \in 1..Len(last.invoked) : last.invoked[j].hook = "unwind"

\* C23: when the call of the k-th processor panics while a sampled span is dropped,
\* the panic leaves drop right after that call: the processors before it and the
\* k-th were invoked in registration order with the span's data, none after it
\* was, and the recorder was not invoked for the span.
C23_ProcessorPanicPropagates ==
    Unwound =>
        LET inv == last.invoked
            n == Len(inv)
        IN  /\ last.span.sampled
            /\ n >= 2
            /\ n - 1 <= Len(processors)
            /\ inv[n].hook = "unwind"
            /\ inv[n].proc = inv[n - 1].proc
            /\ \A j \in 1..(n - 1) :
                  /\ inv[j].hook = "processor"
                  /\ inv[j].proc = processors[j]
                  /\ inv[j].data = SpanDataOf(last.span)
            /\ Count(inv, "recorder") = 0
            /\ rec_count[last.span.span_id] = 0
            /\ proc_count[last.span.span_id] = n - 1

\* The first of several processors panicked on a span holding a record.
C23_Witness ==
    /\ Unwound
    /\ Len(last.invoked) = 2
    /\ Len(processors) >= 2
    /\ last.span.records # <<>>

\* C24: in every state of the channel, closed or holding unread signals, a
\* record_span call can take its next step (it never waits) and ends back in its
\* caller (it has no failing outcome); its first step appends the item to the
\* queue, and its second step changes nothing but the channel, and the channel
\* only by a wake signal that was accepted: a send on the closed channel leaves
\* everything as it was.
C24_RecordSpanNeverFails ==
    /\ [](\A p \in Producers :
            /\ ppc[p] \in {"idle", "pushed"}
            /\ ppc[p] = "pushed" => ENABLED RecordSpanSignal(p)
            /\ (ppc[p] = "idle" /\ ~released /\ npushed < MaxPush) => ENABLED RecordSpanPush(p))
    /\ [][\A p \in Producers :
            /\ (ppc[p] = "idle" /\ ppc'[p] # "idle") =>
                  /\ ppc'[p] = "pushed"
                  /\ queue' = Append(queue, npushed + 1)
                  /\ UNCHANGED <<chan, cpc, buf, delivered, released>>
            /\ (ppc[p] = "pushed" /\ ppc'[p] # "pushed") =>
                  /\ ppc'[p] = "idle"
                  /\ chan' = IF Len(queue) = batch_size_threshold /\ ~Disconnected
                             THEN Append(chan, "Wake") ELSE chan
                  /\ UNCHANGED <<queue, cpc, buf, delivered, npushed, released,
                                 wait_left, collect_left, active>>]_vars

\* The callback panicked on the first batch; a second item was then recorded at
\* the size threshold: it is in the queue, its wake signal was refused by the
\* closed channel, and the producer is back in its caller.
C24_Witness ==
    /\ cpc = "dead"
    /\ ProducersIdle
    /\ batch_size_threshold = 1
    /\ Len(delivered) = 1
    /\ queue = <<2>>
    /\ chan = <<>>

\* The items of all the batches passed to the callback, in delivery order.
RECURSIVE DeliveredItems(_)
DeliveredItems(batches) ==
    IF batches = <<>> THEN <<>>
    ELSE Head(batches).batch \o DeliveredItems(Tail(batches))

NoRepeat(seq) == \A i, j \in 1..Len(seq) : i # j => seq[i] # seq[j]

ItemsOf(seq) == {seq[i] : i \in 1..Len(seq)}

\* C25: every item of every delivered batch was pushed (the pushes are numbered
\* 1..npushed); no item is twice among the delivered batches, the batch being
\* drained and the queue taken together; and while the collector is not inside a
\* drain, the delivered items and the queued items are exactly the pushed ones.
C25_NoDuplicationNoFabrication ==
    /\ ItemsOf(DeliveredItems(delivered)) \subseteq 1..npushed
    /\ NoRepeat(DeliveredItems(delivered) \o buf \o queue)
    /\ cpc # "pop" =>
          /\ buf = <<>>
          /\ ItemsOf(DeliveredItems(delivered)) \cup ItemsOf(queue) = 1..npushed
          /\ Len(DeliveredItems(delivered)) + Len(queue) = npushed

\* Two producers pushed, a drain ran between the pushes, and both items have been
\* delivered, in two batches.
C25_Witness ==
    /\ Cardinality(pushers) = 2
    /\ Len(delivered) = 2
    /\ npushed = MaxPush
    /\ Len(DeliveredItems(delivered)) = MaxPush
    /\ queue = <<>>
    /\ cpc = "recv"

\* Nothing holds the context any more: the Chronograph is dropped, no Span is
\* held and no thread is inside the drop of one.
AllReleased ==
    /\ ~handle
    /\ \A s \in Slots : slots[s] = None
    /\ \A p \in Producers : ppc[p] = "idle"

\* C26: the Shutdown signal is sent by the step that drops the last holder of the
\* context, the Chronograph or a span whose drop has returned, and from then on
\* everything stays released; no push is made once the signal is sent; and when
\* the collector thread has ended on the signal, the items left in the queue for
\* good are exactly the pushed items no batch has delivered (a drain that runs
\* between the sending of the signal and its reception still delivers).
C26_ShutdownAfterAllReleased ==
    /\ [](released => AllReleased)
    /\ [](cpc = "done" =>
            /\ released
            /\ ItemsOf(queue) = (1..npushed) \ ItemsOf(DeliveredItems(delivered))
            /\ NoRepeat(queue))
    /\ [][/\ (~released /\ released') => (strong_count = 1 /\ chan' = Append(chan, "Shutdown"))
          /\ released => (released' /\ npushed' = npushed /\ Len(queue') <= Len(queue))
          /\ Len(queue') > Len(queue) => (~released /\ ~released')
          /\ cpc = "done" => (cpc' = "done" /\ queue' = queue /\ delivered' = delivered)]_vars

\* Two sampled spans were dropped after the Chronograph, the second drop released
\* the recorder, and the collector ended on the signal with an item undelivered.
C26_Witness ==
    /\ released
    /\ cpc = "done"
    /\ npushed = 2
    /\ Cardinality(pushers) = 2
    /\ queue # <<>>
    /\ next_id = 2

====
